---- MODULE Spec2Model ----
(***************************************************************************)
(* help.c: the command catalog (load_command_list, uniq, exclude_cmds,     *)
(* add_cmd_list) and the unknown-command suggestion engine                 *)
(* (help_unknown_cmd).                                                     *)
(*                                                                         *)
(* A C string is a sequence of character codes (1 = 'a', 2 = 'b',          *)
(* 3 = 'c').  A struct cmdname is a heap record [name, len]; a pointer to  *)
(* it is its index in heap, and struct cmdnames is the sequence            *)
(* names[0 .. cnt-1] of such pointers (slots at cnt and beyond are never   *)
(* read by the code and are not kept).                                     *)
(***************************************************************************)
EXTENDS Integers, Sequences, FiniteSets, TLC

VARIABLES pc, cmd, command_list, autocorrect, heap, freed, dfree, uaf,
          aliases, main_cmds, other_cmds, loc, n, best_similarity,
          outcome, assumed, listed

vars == <<pc, cmd, command_list, autocorrect, heap, freed, dfree, uaf,
          aliases, main_cmds, other_cmds, loc, n, best_similarity,
          outcome, assumed, listed>>

(* ------------------------------ bounds -------------------------------- *)

\* entries readdir yields in the exec-path directory
MaxDir == 2
\* entries readdir yields in the other directories of $PATH, together
MaxPath == 2
\* alias.* variables in the configuration
MaxAlias == 1

\* command names found in directories and in alias.* variables:
\* "aab", "ab", "b"
CmdNames == { <<1, 1, 2>>, <<1, 2>>, <<2>> }

\* what the user typed: "a", "ab", "ccc"
TypedNames == { <<1>>, <<1, 2>>, <<3, 3, 3>> }

\* values of help.autocorrect
AutocorrectValues == { -1, 0, 1 }

\* two builds of the generated command_list[] (common-cmds.h), each in
\* name order, over "aa", "aab", "ab", "b", "ba"
CommandLists ==
  { << [name |-> <<1, 1, 2>>, category |-> "CAT_mainporcelain", group |-> "GROUP_INIT"],
       [name |-> <<1, 2>>,    category |-> "CAT_mainporcelain", group |-> "GROUP_INFO"],
       [name |-> <<2>>,       category |-> "CAT_mainporcelain", group |-> "GROUP_HISTORY"],
       [name |-> <<2, 1>>,    category |-> "CAT_plumbingmanipulators", group |-> "GROUP_NONE"] >>,
    << [name |-> <<1, 1>>,    category |-> "CAT_mainporcelain", group |-> "GROUP_INIT"],
       [name |-> <<1, 1, 2>>, category |-> "CAT_purehelpers",   group |-> "GROUP_INFO"],
       [name |-> <<1, 2>>,    category |-> "CAT_mainporcelain", group |-> "GROUP_NONE"],
       [name |-> <<2, 1>>,    category |-> "CAT_mainporcelain", group |-> "GROUP_INFO"] >> }

(* --------------------------- C library -------------------------------- *)

NULL == 0

RECURSIVE strcmp(_, _)
strcmp(s, t) ==
  IF s = <<>> THEN (IF t = <<>> THEN 0 ELSE -1)
  ELSE IF t = <<>> THEN 1
  ELSE IF Head(s) < Head(t) THEN -1
  ELSE IF Head(s) > Head(t) THEN 1
  ELSE strcmp(Tail(s), Tail(t))

\* The names a directory scan (or the alias.* variables) yields, at most k.
\* readdir's order is unspecified and QSORT's result does not depend on
\* it: the order only decides which heap cell holds which name, so the
\* scans are enumerated up to that order (as nondecreasing sequences,
\* duplicates included: "git-x" and "git-x.exe" both yield "x").
Listings(k) ==
  { s \in UNION { [1..m -> CmdNames] : m \in 0..k } :
      \A i \in 1..(Len(s) - 1) : strcmp(s[i], s[i + 1]) <= 0 }

ExecPathListings == Listings(MaxDir)

EnvPathListings == Listings(MaxPath)

AliasListings == Listings(MaxAlias)

\* starts_with(str, prefix)
starts_with(str, prefix) ==
  /\ Len(prefix) <= Len(str)
  /\ SubSeq(str, 1, Len(prefix)) = prefix

\* levenshtein(string1, string2, w, s, a, d): swap, substitution,
\* insertion and deletion penalties (Damerau-Levenshtein by rows)
levenshtein(string1, string2, w, s, a, d) ==
  LET len1 == Len(string1)
      len2 == Len(string2)
      row[i \in 0..len1, j \in 0..len2] ==
        IF i = 0 THEN j * a
        ELSE IF j = 0 THEN i * d
        ELSE
          LET sub == row[i - 1, j - 1] + (IF string1[i] # string2[j] THEN s ELSE 0)
              swp == IF /\ i > 1 /\ j > 1
                        /\ string1[i - 1] = string2[j]
                        /\ string1[i] = string2[j - 1]
                        /\ sub > row[i - 2, j - 2] + w
                     THEN row[i - 2, j - 2] + w ELSE sub
              del == IF swp > row[i - 1, j] + d THEN row[i - 1, j] + d ELSE swp
              ins == IF del > row[i, j - 1] + a THEN row[i, j - 1] + a ELSE del
          IN ins
  IN row[len1, len2]

(* ------------------------------ memory -------------------------------- *)

\* the allocator's state threaded through the catalog operations
Mem == [heap |-> heap, freed |-> freed, dfree |-> dfree, uaf |-> uaf]

\* free(p): free(NULL) is a no-op; a second free of p is recorded
Free(m, p) ==
  IF p = NULL THEN m
  ELSE [m EXCEPT !.dfree = @ \/ (p \in m.freed), !.freed = @ \cup {p}]

\* p->name or p->len is read: a read through NULL or through a freed
\* pointer is recorded
Deref(m, p) == [m EXCEPT !.uaf = @ \/ (p = NULL) \/ (p \in m.freed)]

RECURSIVE DerefAll(_, _)
DerefAll(m, ps) ==
  IF ps = <<>> THEN m ELSE DerefAll(Deref(m, Head(ps)), Tail(ps))

Name(m, p) == m.heap[p].name

\* add_cmdname(cmds, name, len)
add_cmdname(st, name) ==
  LET ent == Len(st.mem.heap) + 1
  IN [mem   |-> [st.mem EXCEPT !.heap = Append(@, [name |-> name, len |-> Len(name)])],
      names |-> Append(st.names, ent)]

\* list_commands_in_dir: one add_cmdname per executable "git-<name>" that
\* readdir yields (an unreadable directory yields none)
RECURSIVE list_commands_in_dir(_, _)
list_commands_in_dir(st, dir) ==
  IF dir = <<>> THEN st
  ELSE list_commands_in_dir(add_cmdname(st, Head(dir)), Tail(dir))

\* git_unknown_cmd_config: one add_cmdname(&aliases, ...) per alias.* variable
RECURSIVE git_unknown_cmd_config(_, _)
git_unknown_cmd_config(st, alias) ==
  IF alias = <<>> THEN st
  ELSE git_unknown_cmd_config(add_cmdname(st, Head(alias)), Tail(alias))

\* clean_cmdnames
RECURSIVE clean_cmdnames(_, _)
clean_cmdnames(m, names) ==
  IF names = <<>> THEN m
  ELSE clean_cmdnames(Free(m, Head(names)), Tail(names))

(* ----------------------------- sorting -------------------------------- *)

cmdname_compare(ea, eb) == strcmp(ea.name, eb.name)

Range(f) == { f[i] : i \in DOMAIN f }

\* the ranking comparison on the names alone
levenshtein_compare_names_only(e1, e2) == strcmp(e1.name, e2.name)

\* l1 != l2 ? l1 - l2 : strcmp(s1, s2), len holding the score
levenshtein_compare(e1, e2) ==
  IF e1.len # e2.len THEN e1.len - e2.len ELSE strcmp(e1.name, e2.name)

\* the pairs (p, q) of pointers of names that a comparison puts in order
\* (compare(p, q) <= 0)
by_cmdname(names, h) ==
  { pq \in Range(names) \X Range(names) : cmdname_compare(h[pq[1]], h[pq[2]]) <= 0 }

by_levenshtein(names, h) ==
  { pq \in Range(names) \X Range(names) : levenshtein_compare(h[pq[1]], h[pq[2]]) <= 0 }

\* every arrangement of the pointers ps that the comparison accepts as
\* sorted
RECURSIVE SortedArrangements(_, _)
SortedArrangements(ps, ordered) ==
  IF ps = {} THEN { <<>> }
  ELSE UNION { { <<p>> \o t : t \in SortedArrangements(ps \ {p}, ordered) } :
               p \in { q \in ps : \A r \in ps : <<q, r>> \in ordered } }

\* QSORT(names, cnt, compare): qsort is not stable, equal elements end in
\* any order
QSORT(names, ordered) == SortedArrangements(Range(names), ordered)

(* ------------------------ catalog operations -------------------------- *)

\* uniq with the later entry of a run kept and the earlier one freed
uniq_keep_last(m, names) ==
  LET cnt == Len(names)
      RECURSIVE loop(_, _, _)
      loop(mm, kept, i) ==
        IF ~(i < cnt) THEN [mem |-> mm, names |-> kept, i |-> i, j |-> Len(kept)]
        ELSE
          LET cur  == names[i + 1]
              last == kept[Len(kept)]
              m1   == Deref(Deref(mm, cur), last)
          IN IF strcmp(Name(m1, cur), Name(m1, last)) = 0
             THEN loop(Free(m1, last), [kept EXCEPT ![Len(kept)] = cur], i + 1)
             ELSE loop(m1, Append(kept, cur), i + 1)
  IN IF cnt = 0 THEN [mem |-> m, names |-> names, i |-> 0, j |-> 0]
     ELSE loop(m, <<names[1]>>, 1)

\* uniq(cmds): i and j are the C locals, kept is names[0 .. j-1]
uniq(m, names) ==
  LET cnt == Len(names)
      RECURSIVE loop(_, _, _)
      loop(mm, kept, i) ==
        IF ~(i < cnt) THEN [mem |-> mm, names |-> kept, i |-> i, j |-> Len(kept)]
        ELSE
          LET cur  == names[i + 1]
              last == kept[Len(kept)]
              m1   == Deref(Deref(mm, cur), last)
          IN IF strcmp(Name(m1, cur), Name(m1, last)) = 0
             THEN loop(Free(m1, cur), kept, i + 1)
             ELSE loop(m1, Append(kept, cur), i + 1)
  IN IF cnt = 0 THEN [mem |-> m, names |-> names, i |-> 0, j |-> 0]
     ELSE loop(m, <<names[1]>>, 1)

\* exclude_cmds without the loop that keeps the entries left once
\* excludes is exhausted
exclude_cmds_no_tail(m, cmds, excludes) ==
  LET RECURSIVE merge(_, _, _, _)
      merge(mm, kept, ci, ei) ==
        IF ci < Len(cmds) /\ ei < Len(excludes)
        THEN LET c   == cmds[ci + 1]
                 e   == excludes[ei + 1]
                 m1  == Deref(Deref(mm, c), e)
                 cmp == strcmp(Name(m1, c), Name(m1, e))
             IN IF cmp < 0 THEN merge(m1, Append(kept, c), ci + 1, ei)
                ELSE IF cmp = 0 THEN merge(Free(m1, c), kept, ci + 1, ei + 1)
                ELSE merge(m1, kept, ci, ei + 1)
        ELSE [mem |-> mm, names |-> kept, ci |-> ci, cj |-> Len(kept), ei |-> ei]
  IN merge(m, <<>>, 0, 0)

\* exclude_cmds(cmds, excludes): ci, cj, ei are the C locals, kept is
\* cmds->names[0 .. cj-1]
exclude_cmds(m, cmds, excludes) ==
  LET RECURSIVE merge(_, _, _, _)
      merge(mm, kept, ci, ei) ==
        IF ci < Len(cmds) /\ ei < Len(excludes)
        THEN LET c   == cmds[ci + 1]
                 e   == excludes[ei + 1]
                 m1  == Deref(Deref(mm, c), e)
                 cmp == strcmp(Name(m1, c), Name(m1, e))
             IN IF cmp < 0 THEN merge(m1, Append(kept, c), ci + 1, ei)
                ELSE IF cmp = 0 THEN merge(Free(m1, c), kept, ci + 1, ei + 1)
                ELSE merge(m1, kept, ci, ei + 1)
        ELSE [mem |-> mm,
              names |-> kept \o SubSeq(cmds, ci + 1, Len(cmds)),
              ci |-> Len(cmds), cj |-> Len(kept) + (Len(cmds) - ci), ei |-> ei]
  IN merge(m, <<>>, 0, 0)

\* add_cmd_list(cmds, old): the pointers move to cmds, old is emptied
add_cmd_list(cmds, old) == [cmds |-> cmds \o old, old |-> <<>>]

\* extract_common_cmds: the main-porcelain commands that have a group
extract_common_cmds(list) ==
  SelectSeq(list, LAMBDA c : ~(c.category # "CAT_mainporcelain" \/ c.group = "GROUP_NONE"))

(* ------------------------- help_unknown_cmd --------------------------- *)

SIMILARITY_FLOOR == 7

SIMILAR_ENOUGH(x) == x < SIMILARITY_FLOOR

\* the exact-match test with its negation dropped
exact_match_negation_dropped(candidate, c) == strcmp(candidate, c) # 0

\* !strcmp(candidate, cmd)
exact_match(candidate, c) == strcmp(candidate, c) = 0

\* levenshtein(cmd, candidate, 0, 2, 1, 3) + 1
similarity(c, candidate) == levenshtein(c, candidate, 0, 2, 1, 3) + 1

\* the advance through common_cmds with <= for <: it steps over the match
RECURSIVE skip_common_past_match(_, _, _)
skip_common_past_match(common_cmds, nn, candidate) ==
  IF nn < Len(common_cmds) /\ strcmp(common_cmds[nn + 1].name, candidate) <= 0
  THEN skip_common_past_match(common_cmds, nn + 1, candidate) ELSE nn

\* while (n < nr_common && strcmp(common_cmds[n].name, candidate) < 0) n++
RECURSIVE skip_common(_, _, _)
skip_common(common_cmds, nn, candidate) ==
  IF nn < Len(common_cmds) /\ strcmp(common_cmds[nn + 1].name, candidate) < 0
  THEN skip_common(common_cmds, nn + 1, candidate) ELSE nn

\* the scoring loop: i walks main_cmds, nn walks common_cmds; died is
\* the die() on an exact match
score_cmds(m, names, common_cmds, c) ==
  LET nr_common == Len(common_cmds)
      RECURSIVE loop(_, _, _)
      loop(mm, i, nn) ==
        IF ~(i < Len(names)) THEN [mem |-> mm, died |-> FALSE]
        ELSE
          LET p         == names[i + 1]
              m1        == Deref(mm, p)
              candidate == Name(m1, p)
              n1        == skip_common(common_cmds, nn, candidate)
              common    == n1 < nr_common /\ strcmp(common_cmds[n1 + 1].name, candidate) = 0
              n2        == IF common THEN n1 + 1 ELSE n1
              score     == IF common /\ starts_with(candidate, c)
                           THEN 0
                           ELSE similarity(c, candidate)
          IN IF exact_match(candidate, c) THEN [mem |-> m1, died |-> TRUE]
             ELSE loop([m1 EXCEPT !.heap[p].len = score], i + 1, n2)
  IN loop(m, 0, 0)

\* the count without the "too ambiguous" branch: best_similarity keeps its
\* initial 0 when every entry is a prefix match
count_candidates_no_ambiguity_branch(m, names) ==
  LET cnt == Len(names)
      RECURSIVE zeros(_)
      zeros(k) == IF k < cnt /\ m.heap[names[k + 1]].len = 0 THEN zeros(k + 1) ELSE k
      n0 == zeros(0)
      RECURSIVE ties(_, _)
      ties(k, best) == IF k < cnt /\ best = m.heap[names[k + 1]].len THEN ties(k + 1, best) ELSE k
  IN IF cnt <= n0
     THEN [n |-> n0, best_similarity |-> 0]
     ELSE [n |-> ties(n0 + 1, m.heap[names[n0 + 1]].len),
           best_similarity |-> m.heap[names[n0 + 1]].len]

\* the count with n restarted after the prefix matches: n counts the most
\* similar entries alone
count_candidates_prefix_not_counted(m, names) ==
  LET cnt == Len(names)
      RECURSIVE zeros(_)
      zeros(k) == IF k < cnt /\ m.heap[names[k + 1]].len = 0 THEN zeros(k + 1) ELSE k
      n0 == zeros(0)
      RECURSIVE ties(_, _)
      ties(k, best) == IF k < cnt /\ best = m.heap[names[k + 1]].len THEN ties(k + 1, best) ELSE k
  IN IF cnt <= n0
     THEN [n |-> n0, best_similarity |-> SIMILARITY_FLOOR + 1]
     ELSE [n |-> ties(n0 + 1, m.heap[names[n0 + 1]].len) - n0,
           best_similarity |-> m.heap[names[n0 + 1]].len]

\* "skip and count prefix matches", then "count all the most similar ones"
count_candidates(m, names) ==
  LET cnt == Len(names)
      RECURSIVE zeros(_)
      zeros(k) == IF k < cnt /\ m.heap[names[k + 1]].len = 0 THEN zeros(k + 1) ELSE k
      n0 == zeros(0)
      RECURSIVE ties(_, _)
      ties(k, best) == IF k < cnt /\ best = m.heap[names[k + 1]].len THEN ties(k + 1, best) ELSE k
  IN IF cnt <= n0
     THEN [n |-> n0, best_similarity |-> SIMILARITY_FLOOR + 1]
     ELSE [n |-> ties(n0 + 1, m.heap[names[n0 + 1]].len),
           best_similarity |-> m.heap[names[n0 + 1]].len]

\* the auto-correct test without n == 1
auto_accepts_any_count(ac, k, best) == ac # 0 /\ SIMILAR_ENOUGH(best)

\* autocorrect && n == 1 && SIMILAR_ENOUGH(best_similarity)
auto_accepts(ac, k, best) == ac # 0 /\ k = 1 /\ SIMILAR_ENOUGH(best)

\* names[0] left in place before clean_cmdnames
detach_assumed_omitted(names) == names

\* main_cmds.names[0] = NULL before clean_cmdnames(&main_cmds)
detach_assumed(names) == [names EXCEPT ![1] = NULL]

\* the list printed whatever the best similarity is
suggestions_unconditional(m, names, k, best) == [i \in 1..k |-> Name(m, names[i])]

\* the names printed under "The most similar command(s)"
suggestions(m, names, k, best) ==
  IF SIMILAR_ENOUGH(best) THEN [i \in 1..k |-> Name(m, names[i])] ELSE <<>>

(* ------------------------------ actions ------------------------------- *)

NoLocals == [i |-> 0, j |-> 0, e |-> 0]

SetMem(m) ==
  /\ heap' = m.heap
  /\ freed' = m.freed
  /\ dfree' = m.dfree
  /\ uaf' = m.uaf

Init ==
  /\ pc = "config"
  /\ cmd \in TypedNames
  /\ command_list \in CommandLists
  /\ autocorrect = 0
  /\ heap = <<>>
  /\ freed = {}
  /\ dfree = FALSE
  /\ uaf = FALSE
  /\ aliases = <<>>
  /\ main_cmds = <<>>
  /\ other_cmds = <<>>
  /\ loc = NoLocals
  /\ n = 0
  /\ best_similarity = 0
  /\ outcome = "none"
  /\ assumed = NULL
  /\ listed = <<>>

\* read_early_config(git_unknown_cmd_config, NULL)
read_early_config ==
  /\ pc = "config"
  /\ \E ac \in AutocorrectValues, alias \in AliasListings :
       LET st == git_unknown_cmd_config([mem |-> Mem, names |-> aliases], alias)
       IN /\ autocorrect' = ac
          /\ aliases' = st.names
          /\ SetMem(st.mem)
  /\ pc' = "list_main"
  /\ UNCHANGED <<cmd, command_list, main_cmds, other_cmds, loc, n,
                 best_similarity, outcome, assumed, listed>>

\* load_command_list: list_commands_in_dir(main_cmds, exec_path) and QSORT
list_main_cmds ==
  /\ pc = "list_main"
  /\ \E dir \in ExecPathListings :
       LET st == list_commands_in_dir([mem |-> Mem, names |-> main_cmds], dir)
           m1 == DerefAll(st.mem, st.names)
       IN \E sorted \in QSORT(st.names, by_cmdname(st.names, m1.heap)) :
            /\ main_cmds' = sorted
            /\ SetMem(m1)
  /\ pc' = "uniq_main"
  /\ UNCHANGED <<cmd, command_list, autocorrect, aliases, other_cmds, loc, n,
                 best_similarity, outcome, assumed, listed>>

\* load_command_list: uniq(main_cmds)
uniq_main_cmds ==
  /\ pc = "uniq_main"
  /\ LET r == uniq(Mem, main_cmds)
     IN /\ main_cmds' = r.names
        /\ loc' = [i |-> r.i, j |-> r.j, e |-> 0]
        /\ SetMem(r.mem)
  /\ pc' = "list_other"
  /\ UNCHANGED <<cmd, command_list, autocorrect, aliases, other_cmds, n,
                 best_similarity, outcome, assumed, listed>>

\* load_command_list: list_commands_in_dir(other_cmds, path) for the
\* directories of $PATH, and QSORT
list_other_cmds ==
  /\ pc = "list_other"
  /\ \E dir \in EnvPathListings :
       LET st == list_commands_in_dir([mem |-> Mem, names |-> other_cmds], dir)
           m1 == DerefAll(st.mem, st.names)
       IN \E sorted \in QSORT(st.names, by_cmdname(st.names, m1.heap)) :
            /\ other_cmds' = sorted
            /\ SetMem(m1)
  /\ pc' = "uniq_other"
  /\ UNCHANGED <<cmd, command_list, autocorrect, aliases, main_cmds, loc, n,
                 best_similarity, outcome, assumed, listed>>

\* load_command_list: uniq(other_cmds)
uniq_other_cmds ==
  /\ pc = "uniq_other"
  /\ LET r == uniq(Mem, other_cmds)
     IN /\ other_cmds' = r.names
        /\ loc' = [i |-> r.i, j |-> r.j, e |-> 0]
        /\ SetMem(r.mem)
  /\ pc' = "exclude"
  /\ UNCHANGED <<cmd, command_list, autocorrect, aliases, main_cmds, n,
                 best_similarity, outcome, assumed, listed>>

\* load_command_list: exclude_cmds(other_cmds, main_cmds)
exclude_main_cmds ==
  /\ pc = "exclude"
  /\ LET r == exclude_cmds(Mem, other_cmds, main_cmds)
     IN /\ other_cmds' = r.names
        /\ loc' = [i |-> r.ci, j |-> r.cj, e |-> r.ei]
        /\ SetMem(r.mem)
  /\ pc' = "merge"
  /\ UNCHANGED <<cmd, command_list, autocorrect, aliases, main_cmds, n,
                 best_similarity, outcome, assumed, listed>>

\* help_unknown_cmd: add_cmd_list(aliases), add_cmd_list(other_cmds), QSORT
merge_cmds ==
  /\ pc = "merge"
  /\ LET a1 == add_cmd_list(main_cmds, aliases)
         a2 == add_cmd_list(a1.cmds, other_cmds)
         m1 == DerefAll(Mem, a2.cmds)
     IN /\ aliases' = a1.old
        /\ other_cmds' = a2.old
        /\ \E sorted \in QSORT(a2.cmds, by_cmdname(a2.cmds, m1.heap)) : main_cmds' = sorted
        /\ SetMem(m1)
  /\ pc' = "uniq_merged"
  /\ UNCHANGED <<cmd, command_list, autocorrect, loc, n,
                 best_similarity, outcome, assumed, listed>>

\* help_unknown_cmd: uniq(&main_cmds)
uniq_merged ==
  /\ pc = "uniq_merged"
  /\ LET r == uniq(Mem, main_cmds)
     IN /\ main_cmds' = r.names
        /\ loc' = [i |-> r.i, j |-> r.j, e |-> 0]
        /\ SetMem(r.mem)
  /\ pc' = "score"
  /\ UNCHANGED <<cmd, command_list, autocorrect, aliases, other_cmds, n,
                 best_similarity, outcome, assumed, listed>>

\* help_unknown_cmd: extract_common_cmds and the scoring loop
score ==
  /\ pc = "score"
  /\ LET r == score_cmds(Mem, main_cmds, extract_common_cmds(command_list), cmd)
     IN /\ SetMem(r.mem)
        /\ IF r.died
           THEN pc' = "done" /\ outcome' = "FatalBadInterpreter"
           ELSE pc' = "rank" /\ outcome' = outcome
  /\ UNCHANGED <<cmd, command_list, autocorrect, aliases, main_cmds, other_cmds,
                 loc, n, best_similarity, assumed, listed>>

\* help_unknown_cmd: QSORT by levenshtein_compare, die on an empty catalog
rank ==
  /\ pc = "rank"
  /\ LET m1 == DerefAll(Mem, main_cmds)
     IN /\ \E sorted \in QSORT(main_cmds, by_levenshtein(main_cmds, m1.heap)) : main_cmds' = sorted
        /\ SetMem(m1)
  /\ IF Len(main_cmds) = 0
     THEN pc' = "done" /\ outcome' = "NoCommandsFound"
     ELSE pc' = "decide" /\ outcome' = outcome
  /\ UNCHANGED <<cmd, command_list, autocorrect, aliases, other_cmds,
                 loc, n, best_similarity, assumed, listed>>

\* help_unknown_cmd: count the candidates, then auto-correct or list them
decide ==
  /\ pc = "decide"
  /\ LET r  == count_candidates(Mem, main_cmds)
         m1 == DerefAll(Mem, SubSeq(main_cmds, 1, r.n))
     IN /\ n' = r.n
        /\ best_similarity' = r.best_similarity
        /\ IF auto_accepts(autocorrect, r.n, r.best_similarity)
           THEN /\ assumed' = main_cmds[1]
                /\ SetMem(clean_cmdnames(m1, detach_assumed(main_cmds)))
                /\ main_cmds' = <<>>
                /\ listed' = listed
                /\ outcome' = "AutoAccepted"
           ELSE /\ assumed' = assumed
                /\ SetMem(m1)
                /\ main_cmds' = main_cmds
                /\ listed' = suggestions(m1, main_cmds, r.n, r.best_similarity)
                /\ outcome' = "Suggestions"
  /\ pc' = "done"
  /\ UNCHANGED <<cmd, command_list, autocorrect, aliases, other_cmds, loc>>

Next ==
  \/ read_early_config
  \/ list_main_cmds
  \/ uniq_main_cmds
  \/ list_other_cmds
  \/ uniq_other_cmds
  \/ exclude_main_cmds
  \/ merge_cmds
  \/ uniq_merged
  \/ score
  \/ rank
  \/ decide

Spec == Init /\ [][Next]_vars

(* ------------------------------ claims -------------------------------- *)

NameAt(ps, i) == heap[ps[i]].name

ScoreAt(ps, i) == heap[ps[i]].len

NamesOf(ps) == [i \in DOMAIN ps |-> NameAt(ps, i)]

Ranked == pc \in {"decide", "done"} /\ outcome \in {"none", "Suggestions"}

\* plain set membership in the common commands of command_list
IsCommon(name) ==
  \E k \in DOMAIN command_list :
    /\ command_list[k].name = name
    /\ command_list[k].category = "CAT_mainporcelain"
    /\ command_list[k].group # "GROUP_NONE"

\* C1: when command_name is the name of an entry of the merged catalog,
\* help_unknown_cmd ends in FatalBadInterpreter: it does not go on to rank,
\* never auto-accepts and never prints a suggestion.
C1_ExactMatchIsFatal ==
  (/\ pc \in {"rank", "decide", "done"}
   /\ \E i \in DOMAIN main_cmds : NameAt(main_cmds, i) = cmd)
  => (/\ pc = "done"
      /\ outcome = "FatalBadInterpreter"
      /\ assumed = NULL
      /\ listed = <<>>)

C1_Witness ==
  /\ pc = "done"
  /\ outcome = "FatalBadInterpreter"
  /\ Len(main_cmds) >= 3
  /\ NameAt(main_cmds, 2) = cmd

\* two or more entries of ps share the score sc
TiedAt(ps, sc) == Cardinality({ i \in DOMAIN ps : ScoreAt(ps, i) = sc }) >= 2

\* the lowest score of ps, and the lowest positive one
IsBestScore(ps, sc) ==
  /\ \E i \in DOMAIN ps : ScoreAt(ps, i) = sc
  /\ \A i \in DOMAIN ps : ScoreAt(ps, i) >= sc

IsBestPositiveScore(ps, sc) ==
  /\ sc > 0
  /\ \E i \in DOMAIN ps : ScoreAt(ps, i) = sc
  /\ \A i \in DOMAIN ps : ScoreAt(ps, i) > 0 => ScoreAt(ps, i) >= sc

\* C2: with autocorrect nonzero, two or more entries tied at the best score
\* (the lowest score, or the lowest one after the prefix matches) below 7
\* give Suggestions, never AutoAccepted; AutoAccepted needs n = 1.
C2_TieNeverAutoAccepted ==
  [][pc = "decide" =>
       /\ (/\ autocorrect # 0
           /\ \E sc \in 0..(SIMILARITY_FLOOR - 1) :
                /\ IsBestScore(main_cmds, sc) \/ IsBestPositiveScore(main_cmds, sc)
                /\ TiedAt(main_cmds, sc))
          => outcome' = "Suggestions"
       /\ outcome' = "AutoAccepted" => n' = 1]_vars

C2_Witness ==
  /\ pc = "done"
  /\ autocorrect # 0
  /\ outcome = "Suggestions"
  /\ best_similarity < SIMILARITY_FLOOR
  /\ ScoreAt(main_cmds, 1) = best_similarity
  /\ TiedAt(main_cmds, best_similarity)
  /\ n = 2
  /\ Len(listed) = 2

AllPrefixMatches(ps) == ps # <<>> /\ \A i \in DOMAIN ps : ScoreAt(ps, i) = 0

\* C3: when every entry of the non-empty merged catalog is a zero-score
\* prefix match, the best similarity is forced to 8, the outcome is not
\* AutoAccepted and no name is printed, whatever autocorrect is.
C3_AllPrefixMatchesSuppressed ==
  [][(pc = "decide" /\ AllPrefixMatches(main_cmds)) =>
       /\ best_similarity' = SIMILARITY_FLOOR + 1
       /\ outcome' = "Suggestions"
       /\ assumed' = NULL
       /\ listed' = <<>>]_vars

C3_Witness ==
  /\ pc = "done"
  /\ outcome = "Suggestions"
  /\ autocorrect # 0
  /\ AllPrefixMatches(main_cmds)
  /\ n = 1
  /\ listed = <<>>

\* the entries of cmds whose name is the name of no entry of excludes
NaiveFilter(cmds, excludes) ==
  SelectSeq(cmds, LAMBDA p : ~ \E k \in DOMAIN excludes : heap[excludes[k]].name = heap[p].name)

\* C4: exclude_cmds(other_cmds, main_cmds), both sorted and free of
\* duplicates, leaves in other_cmds exactly the entries whose name is not
\* in main_cmds, in their order: what the naive membership filter gives.
C4_ExcludeIsNaiveFilter ==
  [][pc = "exclude" =>
       /\ other_cmds' = NaiveFilter(other_cmds, main_cmds)
       /\ main_cmds' = main_cmds]_vars

C4_Witness ==
  /\ pc = "merge"
  /\ Len(main_cmds) = 2
  /\ Len(other_cmds) = 1
  /\ loc.i = 2
  /\ loc.j = 1

\* C is the only zero-score prefix match of the ranked catalog
UniquePrefixMatch(ps) ==
  /\ ps # <<>>
  /\ ScoreAt(ps, 1) = 0
  /\ IsCommon(NameAt(ps, 1))
  /\ starts_with(NameAt(ps, 1), cmd)
  /\ \A i \in DOMAIN ps : i > 1 => ScoreAt(ps, i) > 0

\* C5 as stated: a unique zero-score prefix match C with autocorrect = -1
\* is auto-accepted.
C5_UniquePrefixAutoAccepted ==
  [][(pc = "decide" /\ autocorrect = -1 /\ UniquePrefixMatch(main_cmds)) =>
       /\ outcome' = "AutoAccepted"
       /\ assumed' = main_cmds[1]]_vars

\* C5 amended: a unique zero-score prefix match C with autocorrect = -1 is
\* never auto-accepted.  C is counted with the entries tied at the best
\* positive score (n >= 2), or is the whole catalog (too ambiguous): the
\* outcome is Suggestions, and C is the first name listed when the best
\* positive score is below 7.
C5_UniquePrefixNotAutoAccepted ==
  [][(pc = "decide" /\ autocorrect = -1 /\ UniquePrefixMatch(main_cmds)) =>
       /\ outcome' = "Suggestions"
       /\ assumed' = NULL
       /\ IF Len(main_cmds) = 1
          THEN n' = 1 /\ best_similarity' = SIMILARITY_FLOOR + 1 /\ listed' = <<>>
          ELSE /\ n' >= 2
               /\ best_similarity' = ScoreAt(main_cmds, 2)
               /\ SIMILAR_ENOUGH(best_similarity') =>
                    (listed' # <<>> /\ listed'[1] = NameAt(main_cmds, 1))]_vars

C5_Witness ==
  /\ pc = "done"
  /\ autocorrect = -1
  /\ outcome = "Suggestions"
  /\ UniquePrefixMatch(main_cmds)
  /\ Len(main_cmds) >= 2
  /\ n = 2
  /\ listed = <<NameAt(main_cmds, 1), NameAt(main_cmds, 2)>>

\* C6 as stated: after the re-sort the catalog is ordered by score, then
\* by name length, then by name.
C6_SortedByScoreLengthName ==
  Ranked =>
    \A i, j \in DOMAIN main_cmds :
      i < j =>
        \/ ScoreAt(main_cmds, i) < ScoreAt(main_cmds, j)
        \/ /\ ScoreAt(main_cmds, i) = ScoreAt(main_cmds, j)
           /\ \/ Len(NameAt(main_cmds, i)) < Len(NameAt(main_cmds, j))
              \/ /\ Len(NameAt(main_cmds, i)) = Len(NameAt(main_cmds, j))
                 /\ strcmp(NameAt(main_cmds, i), NameAt(main_cmds, j)) < 0

\* C6 amended: after the re-sort the catalog is ordered by score
\* ascending, and among entries of equal score by name in byte order
\* (strcmp); name length is not compared.  The suggestions are listed in
\* this order.
C6_SortedByScoreThenName ==
  Ranked =>
    /\ \A i, j \in DOMAIN main_cmds :
         i < j =>
           \/ ScoreAt(main_cmds, i) < ScoreAt(main_cmds, j)
           \/ /\ ScoreAt(main_cmds, i) = ScoreAt(main_cmds, j)
              /\ strcmp(NameAt(main_cmds, i), NameAt(main_cmds, j)) < 0
    /\ listed = SubSeq(NamesOf(main_cmds), 1, Len(listed))

C6_Witness ==
  /\ pc = "done"
  /\ outcome = "Suggestions"
  /\ Len(listed) = 3
  /\ ScoreAt(main_cmds, 1) = ScoreAt(main_cmds, 2)
  /\ Len(listed[1]) > Len(listed[2])
  /\ ScoreAt(main_cmds, 3) > ScoreAt(main_cmds, 2)

\* the entries of ps whose score is in scs, in the order of ps
WithScores(ps, scs) == NamesOf(SelectSeq(ps, LAMBDA p : heap[p].len \in scs))

NotAllPrefixMatches(ps) == \E i \in DOMAIN ps : ScoreAt(ps, i) > 0

\* C7 as stated: without auto-accept and with some entry that is no prefix
\* match, the names listed are exactly the entries at the best similarity
\* when it is below 7, and none when it is 7 or more.
C7_ListIsTiedSetOnly ==
  [][(pc = "decide" /\ NotAllPrefixMatches(main_cmds) /\ outcome' = "Suggestions") =>
       /\ IsBestPositiveScore(main_cmds, best_similarity')
       /\ listed' = IF SIMILAR_ENOUGH(best_similarity')
                     THEN WithScores(main_cmds, {best_similarity'})
                     ELSE <<>>]_vars

\* C7 amended: without auto-accept and with some entry that is no prefix
\* match, the best similarity is the score of the first entry after the
\* zero-score run; below 7 the names listed are the zero-score prefix
\* matches followed by exactly the entries at the best similarity (n
\* names), and at 7 or more no name is listed.
C7_ListIsPrefixMatchesThenTiedSet ==
  [][(pc = "decide" /\ NotAllPrefixMatches(main_cmds) /\ outcome' = "Suggestions") =>
       /\ IsBestPositiveScore(main_cmds, best_similarity')
       /\ listed' = IF SIMILAR_ENOUGH(best_similarity')
                     THEN WithScores(main_cmds, {0, best_similarity'})
                     ELSE <<>>
       /\ SIMILAR_ENOUGH(best_similarity') => n' = Len(listed')]_vars

C7_Witness ==
  /\ pc = "done"
  /\ outcome = "Suggestions"
  /\ Len(main_cmds) = 3
  /\ ScoreAt(main_cmds, 1) > 0
  /\ ScoreAt(main_cmds, 2) > ScoreAt(main_cmds, 1)
  /\ listed = <<NameAt(main_cmds, 1)>>

\* C8: after scoring, an entry has score 0 exactly when it is a common
\* command (by plain membership in command_list) of which cmd is a prefix;
\* every other entry has score levenshtein + 1 >= 1; after ranking every
\* zero-score entry precedes every positive-score entry.
C8_PrefixBonus ==
  /\ (pc \in {"rank", "decide"} \/ (pc = "done" /\ outcome = "Suggestions")) =>
       \A i \in DOMAIN main_cmds :
         IF IsCommon(NameAt(main_cmds, i)) /\ starts_with(NameAt(main_cmds, i), cmd)
         THEN ScoreAt(main_cmds, i) = 0
         ELSE /\ ScoreAt(main_cmds, i) >= 1
              /\ ScoreAt(main_cmds, i) = levenshtein(cmd, NameAt(main_cmds, i), 0, 2, 1, 3) + 1
  /\ Ranked =>
       \A i, j \in DOMAIN main_cmds :
         (ScoreAt(main_cmds, i) = 0 /\ ScoreAt(main_cmds, j) > 0) => i < j

C8_Witness ==
  /\ pc = "decide"
  /\ Len(main_cmds) = 3
  /\ ScoreAt(main_cmds, 1) = 0
  /\ ScoreAt(main_cmds, 3) > 0
  /\ IsCommon(NameAt(main_cmds, 3))
  /\ similarity(cmd, NameAt(main_cmds, 1)) >= ScoreAt(main_cmds, 3)

\* the first entry of every run of equal names
FirstOfRuns(ps) ==
  LET keep == { i \in DOMAIN ps : i = 1 \/ NameAt(ps, i) # NameAt(ps, i - 1) }
      RECURSIVE pick(_)
      pick(i) == IF i > Len(ps) THEN <<>>
                 ELSE (IF i \in keep THEN <<ps[i]>> ELSE <<>>) \o pick(i + 1)
  IN pick(1)

NoDuplicateNames(ps) ==
  \A i, j \in DOMAIN ps : NameAt(ps, i) = NameAt(ps, j) => i = j

UniqInput == IF pc = "uniq_other" THEN other_cmds ELSE main_cmds

\* C9: on a catalog sorted by name, uniq keeps the first entry of each run
\* of equal names and drops the rest, so no name is left twice; on a
\* catalog without duplicates (the empty one too) it changes nothing, and
\* uniq applied again to its result returns the same catalog and frees
\* nothing.
C9_UniqKeepsFirstAndIsIdempotent ==
  [][(pc = "uniq_main" \/ pc = "uniq_other" \/ pc = "uniq_merged") =>
       (LET out   == IF pc = "uniq_other" THEN other_cmds' ELSE main_cmds'
            again == uniq([heap |-> heap', freed |-> freed', dfree |-> dfree', uaf |-> uaf'], out)
        IN /\ out = FirstOfRuns(UniqInput)
           /\ NoDuplicateNames(out)
           /\ NoDuplicateNames(UniqInput) => (out = UniqInput /\ freed' = freed)
           /\ again.names = out
           /\ freed' = again.mem.freed)]_vars

C9_Witness ==
  /\ pc = "score"
  /\ loc.i = 3
  /\ loc.j = 2
  /\ Len(main_cmds) = 2

\* the slots of the three catalogs, one after the other
Slots == main_cmds \o other_cmds \o aliases

\* C10: every entry that is not freed is held by exactly one catalog slot
\* (the entry returned on AutoAccepted by none), no slot holds a freed
\* entry, no entry is freed twice, no freed entry is read, and the entry
\* returned on AutoAccepted is not freed.
C10_SingleOwnerNoDoubleFree ==
  /\ ~dfree
  /\ ~uaf
  /\ \A i \in DOMAIN Slots : Slots[i] \in (1..Len(heap)) \ freed
  /\ \A i, j \in DOMAIN Slots : Slots[i] = Slots[j] => i = j
  /\ \A p \in 1..Len(heap) :
       \/ p \in freed
       \/ p = assumed
       \/ \E i \in DOMAIN Slots : Slots[i] = p
  /\ outcome = "AutoAccepted" <=> assumed # NULL
  /\ assumed # NULL =>
       /\ assumed \in (1..Len(heap)) \ freed
       /\ \A i \in DOMAIN Slots : Slots[i] # assumed

C10_Witness ==
  /\ pc = "done"
  /\ outcome = "AutoAccepted"
  /\ main_cmds = <<>>
  /\ Cardinality(freed) >= 3
  /\ Len(heap) = Cardinality(freed) + 1

====
